---- MODULE Spec2Model ----
(***************************************************************************)
(* The asynchronous task manager of tools/server/task_manager.py and the   *)
(* request handlers of tools/server/views.py that drive it.                *)
(*                                                                         *)
(* Threads: request handlers (Callers) and one worker thread per started   *)
(* task.  Handlers serialise their accesses to the registry dict with      *)
(* TaskManager.lock; workers never take the lock and interleave with the   *)
(* handlers and with each other at the granularity of one attribute read   *)
(* or write.  A program counter named wNNN / cNN refers to line NNN of     *)
(* task_manager.py.                                                        *)
(***************************************************************************)
EXTENDS Integers, Sequences, FiniteSets, TLC

\* ---------------------------------------------------------------- bounds
NumCallers == 2      \* concurrent request-handler threads
MaxObjs    == 2      \* AsyncTask objects ever constructed
MaxYields  == 1      \* segments the inference generator yields before its final value
MaxTime    == 1      \* last value of the clock time.time()

Callers == 1 .. NumCallers
Ids     == {"a", "b"}
Formats == {"wav"}
MaxAges == {0, 1}

\* ----------------------------------------------------------- TaskStatus
PENDING   == "pending"
RUNNING   == "running"
COMPLETED == "completed"
FAILED    == "failed"
CANCELLED == "cancelled"

Terminal == {COMPLETED, FAILED, CANCELLED}

\* ------------------------------------------------------- Python values
NoneStr  == "None"          \* None where a str is expected
NoneTime == -1              \* None where a float timestamp is expected
NoPath   == <<"", "">>      \* None where a path is expected
NoFile   == [by |-> 0, full |-> FALSE]

\* a message that line 153 does not raise
ErrNoResult == "no result produced"
\* str(e) of the exceptions a worker can catch
ErrNoAudio == "No audio generated"
ErrWrite   == "write failed"
ErrMsgs    == {"inference failed", ""}

\* truthiness of an Optional[str]
Truthy(s) == s /= NoneStr /\ s /= ""

VARIABLES
    tasks,      \* TaskManager.tasks: step_id -> index of its AsyncTask, 0 when absent
    task,       \* the AsyncTask objects, in order of construction
    worker,     \* per AsyncTask: the position and locals of its run_task thread
    files,      \* the files of temp_dir: path -> content
    lock,       \* TaskManager.lock: 0 when free, else the caller holding it
    caller,     \* per request handler: the operation it runs, its position and locals
    now,        \* time.time()
    hist        \* per AsyncTask: history of what happened to it

vars == <<tasks, task, worker, files, lock, caller, now, hist>>

Objs == 1 .. Len(task)

\* result_path = self.temp_dir / f"{task.step_id}.{task.request.format}"
ResultPath(o) == <<task[o].step_id, task[o].request.format>>

\* os.path.exists(path)
Exists(p) == p /= NoPath /\ files[p] /= NoFile

\* AsyncTask.__init__
AsyncTask(step_id, request) ==
    [ step_id       |-> step_id,
      request       |-> request,
      status        |-> PENDING,
      created_at    |-> now,
      started_at    |-> NoneTime,
      completed_at  |-> NoneTime,
      error_message |-> NoneStr,
      result_path   |-> NoPath,
      cancelled     |-> FALSE ]

\* a task object whose thread attribute is still None
NoThread == [pc |-> "nothread", result |-> "none", exc |-> NoneStr, n |-> 0]

NoHist == [evicted |-> FALSE, cancel_done |-> FALSE, preflag |-> FALSE,
           flag_status |-> NoneStr, ran |-> FALSE]

NoInfo == [status |-> NoneStr, started_at |-> NoneTime, completed_at |-> NoneTime,
           download_url |-> FALSE, error_key |-> FALSE, error |-> NoneStr]

\* a handler thread that runs no request
Idle == [ op |-> "none", pc |-> "idle", step_id |-> "", request |-> [format |-> "wav"],
          task |-> 0, ret |-> NoneStr, info |-> NoInfo, t |-> 0, max_age |-> 0,
          remove |-> {}, cur |-> 0, count |-> 0, content |-> NoFile,
          seen |-> NoneStr, after |-> FALSE, conc |-> FALSE ]

Init ==
    /\ tasks  = [i \in Ids |-> 0]
    /\ task   = << >>
    /\ worker = << >>
    /\ hist   = << >>
    /\ files  = [p \in Ids \X Formats |-> NoFile]
    /\ lock   = 0
    /\ caller = [c \in Callers |-> Idle]
    /\ now    = 0

\* the registry's records in dict order (insertion order = construction order)
Present == {tasks[i] : i \in Ids} \ {0}

\* the record that follows object k in an iteration over self.tasks
NextAfter(k) ==
    IF \E o \in Present : o > k
    THEN CHOOSE o \in Present : o > k /\ \A q \in Present : q > k => o <= q
    ELSE 0

\* time.time() advances
Tick ==
    /\ now < MaxTime
    /\ now' = now + 1
    /\ UNCHANGED <<tasks, task, worker, files, lock, caller, hist>>

\* a handler has answered its request
Return(c) ==
    /\ caller[c].pc = "ret"
    /\ caller' = [caller EXCEPT ![c] = Idle]
    /\ UNCHANGED <<tasks, task, worker, files, lock, now, hist>>

\* ------------------------------------------------- TaskManager.create_task
\* views.py line 514: generate_audio_enhanced_async calls create_task(step_id, request)
CreateBegin(c, step_id, request) ==
    /\ caller[c].pc = "idle"
    /\ caller' = [caller EXCEPT ![c] = [Idle EXCEPT !.op = "create_task", !.pc = "cr_acq",
                    !.step_id = step_id, !.request = request,
                    !.conc = \E d \in Callers \ {c} :
                                /\ caller[d].pc \in {"cr_acq", "cr_check", "cr_insert"}
                                /\ caller[d].step_id = step_id]]
    /\ UNCHANGED <<tasks, task, worker, files, lock, now, hist>>

\* line 89: with self.lock
CreateAcquire(c) ==
    /\ caller[c].pc = "cr_acq"
    /\ lock = 0
    /\ lock' = c
    /\ caller' = [caller EXCEPT ![c].pc = "cr_check"]
    /\ UNCHANGED <<tasks, task, worker, files, now, hist>>

\* `step_id in self.tasks`
CreateCollidesNever(step_id) == FALSE

CreateCollides(step_id) == tasks[step_id] /= 0

\* line 90-91: raise ValueError when the id is present; the handler answers 400
CreateCheck(c) ==
    /\ caller[c].pc = "cr_check"
    /\ IF CreateCollides(caller[c].step_id)
       THEN /\ lock' = 0
            /\ caller' = [caller EXCEPT ![c].pc = "ret", ![c].ret = "ValueError"]
       ELSE /\ lock' = lock
            /\ caller' = [caller EXCEPT ![c].pc = "cr_insert"]
    /\ UNCHANGED <<tasks, task, worker, files, now, hist>>

\* line 93-96: construct the AsyncTask, insert it, leave the lock, return it
CreateInsert(c) ==
    /\ caller[c].pc = "cr_insert"
    /\ Len(task) < MaxObjs
    /\ task'   = Append(task, AsyncTask(caller[c].step_id, caller[c].request))
    /\ worker' = Append(worker, NoThread)
    /\ hist'   = Append(hist, NoHist)
    /\ tasks'  = [tasks EXCEPT ![caller[c].step_id] = Len(task) + 1]
    /\ lock'   = 0
    /\ caller' = [caller EXCEPT ![c].pc = "ep_start", ![c].task = Len(task) + 1]
    /\ UNCHANGED <<files, now>>

\* ------------------------------------------------- TaskManager.start_task
\* line 185-186: task.thread = threading.Thread(target=run_task); task.thread.start()
StartTask(c) ==
    /\ caller[c].pc = "ep_start"
    /\ worker' = [worker EXCEPT ![caller[c].task].pc = "w117"]
    /\ caller' = [caller EXCEPT ![c].pc = "ep_resp"]
    /\ UNCHANGED <<tasks, task, files, lock, now, hist>>

\* a response that always carries the status a new task is constructed with
CreateRespondPending(c) ==
    /\ caller[c].pc = "ep_resp"
    /\ caller' = [caller EXCEPT ![c].pc = "ret", ![c].ret = PENDING]
    /\ UNCHANGED <<tasks, task, worker, files, lock, now, hist>>

\* views.py line 527-531: the response carries task.status.value
CreateRespond(c) ==
    /\ caller[c].pc = "ep_resp"
    /\ caller' = [caller EXCEPT ![c].pc = "ret", ![c].ret = task[caller[c].task].status]
    /\ UNCHANGED <<tasks, task, worker, files, lock, now, hist>>

\* ------------------------------------------ TaskManager.start_task.run_task
\* line 117: task.status = TaskStatus.RUNNING
W117(o) ==
    /\ o \in Objs
    /\ worker[o].pc = "w117"
    /\ task'   = [task EXCEPT ![o].status = RUNNING]
    /\ worker' = [worker EXCEPT ![o].pc = "w118"]
    /\ hist'   = [hist EXCEPT ![o].preflag = task[o].cancelled]
    /\ UNCHANGED <<tasks, files, lock, caller, now>>

\* line 118: task.started_at = time.time()
W118(o) ==
    /\ o \in Objs
    /\ worker[o].pc = "w118"
    /\ task'   = [task EXCEPT ![o].started_at = now]
    /\ worker' = [worker EXCEPT ![o].pc = "w121"]
    /\ UNCHANGED <<tasks, files, lock, caller, now, hist>>

\* line 121: if task.cancelled.is_set()
W121(o) ==
    /\ o \in Objs
    /\ worker[o].pc = "w121"
    /\ worker' = [worker EXCEPT ![o].pc = IF task[o].cancelled THEN "w122" ELSE "w131"]
    /\ UNCHANGED <<tasks, task, files, lock, caller, now, hist>>

\* line 122 left out: the thread returns with the status it has
W122ReturnOnly(o) ==
    /\ o \in Objs
    /\ worker[o].pc = "w122"
    /\ worker' = [worker EXCEPT ![o].pc = "done"]
    /\ UNCHANGED <<tasks, task, files, lock, caller, now, hist>>

\* line 122-123: task.status = TaskStatus.CANCELLED; return
W122(o) ==
    /\ o \in Objs
    /\ worker[o].pc = "w122"
    /\ task'   = [task EXCEPT ![o].status = CANCELLED]
    /\ worker' = [worker EXCEPT ![o].pc = "done"]
    /\ UNCHANGED <<tasks, files, lock, caller, now, hist>>

\* line 131: the generator inference(task.request, engine) yields a segment (bytes)
InferenceSegment(o) ==
    /\ o \in Objs
    /\ worker[o].pc = "w131"
    /\ worker[o].n < MaxYields
    /\ worker' = [worker EXCEPT ![o].pc = "w133", ![o].result = "segment", ![o].n = @ + 1]
    /\ hist'   = [hist EXCEPT ![o].ran = TRUE]
    /\ UNCHANGED <<tasks, task, files, lock, caller, now>>

\* line 131: the generator yields the final merged audio (numpy array)
InferenceFinal(o) ==
    /\ o \in Objs
    /\ worker[o].pc = "w131"
    /\ worker' = [worker EXCEPT ![o].pc = "w133", ![o].result = "final"]
    /\ hist'   = [hist EXCEPT ![o].ran = TRUE]
    /\ UNCHANGED <<tasks, task, files, lock, caller, now>>

\* line 131, 152-153: the generator ends; the loop is only left by `break` with
\* audio_data set, so here audio_data is None: raise ValueError("No audio generated")
InferenceEnd(o) ==
    /\ o \in Objs
    /\ worker[o].pc = "w131"
    /\ worker' = [worker EXCEPT ![o].pc = "w180", ![o].exc = ErrNoAudio]
    /\ hist'   = [hist EXCEPT ![o].ran = TRUE]
    /\ UNCHANGED <<tasks, task, files, lock, caller, now>>

\* line 131: the generator raises
InferenceRaise(o, msg) ==
    /\ o \in Objs
    /\ worker[o].pc = "w131"
    /\ worker' = [worker EXCEPT ![o].pc = "w180", ![o].exc = msg]
    /\ hist'   = [hist EXCEPT ![o].ran = TRUE]
    /\ UNCHANGED <<tasks, task, files, lock, caller, now>>

\* line 133-141 left out: a yielded value is used whatever the cancel flag says
W133NoCheckpoint(o) ==
    /\ o \in Objs
    /\ worker[o].pc = "w133"
    /\ worker' = [worker EXCEPT ![o].pc =
                    IF worker[o].result = "final" THEN "w167" ELSE "w131"]
    /\ UNCHANGED <<tasks, task, files, lock, caller, now, hist>>

\* line 133: if task.cancelled.is_set(); otherwise line 146-149 (a final value is
\* kept and the loop left, a segment is ignored) and line 152-165 (sf.write
\* encodes the audio into a buffer)
W133(o) ==
    /\ o \in Objs
    /\ worker[o].pc = "w133"
    /\ worker' = [worker EXCEPT ![o].pc =
                    IF task[o].cancelled THEN "w134"
                    ELSE IF worker[o].result = "final" THEN "w167" ELSE "w131"]
    /\ UNCHANGED <<tasks, task, files, lock, caller, now, hist>>

\* line 160-165: sf.write raises (the buffer cannot be encoded)
EncodeRaise(o) ==
    /\ o \in Objs
    /\ worker[o].pc = "w133"
    /\ ~task[o].cancelled
    /\ worker[o].result = "final"
    /\ worker' = [worker EXCEPT ![o].pc = "w180", ![o].exc = ErrWrite]
    /\ UNCHANGED <<tasks, task, files, lock, caller, now, hist>>

\* line 134: task.status = TaskStatus.CANCELLED
W134(o) ==
    /\ o \in Objs
    /\ worker[o].pc = "w134"
    /\ task'   = [task EXCEPT ![o].status = CANCELLED]
    /\ worker' = [worker EXCEPT ![o].pc = "w136"]
    /\ UNCHANGED <<tasks, files, lock, caller, now, hist>>

\* line 136-141 unlinking the file at the task's artifact path, whether or not
\* result_path is set
W136UnlinkArtifact(o) ==
    /\ o \in Objs
    /\ worker[o].pc = "w136"
    /\ files'  = [files EXCEPT ![ResultPath(o)] = NoFile]
    /\ worker' = [worker EXCEPT ![o].pc = "done"]
    /\ UNCHANGED <<tasks, task, lock, caller, now, hist>>

\* line 136-141: unlink task.result_path when it is set and exists; return
W136(o) ==
    /\ o \in Objs
    /\ worker[o].pc = "w136"
    /\ files'  = IF Exists(task[o].result_path)
                 THEN [files EXCEPT ![task[o].result_path] = NoFile]
                 ELSE files
    /\ worker' = [worker EXCEPT ![o].pc = "done"]
    /\ UNCHANGED <<tasks, task, lock, caller, now, hist>>

\* line 167-168: open(result_path, "wb") and write the buffer
W167(o) ==
    /\ o \in Objs
    /\ worker[o].pc = "w167"
    /\ files'  = [files EXCEPT ![ResultPath(o)] = [by |-> o, full |-> TRUE]]
    /\ worker' = [worker EXCEPT ![o].pc = "w170"]
    /\ UNCHANGED <<tasks, task, lock, caller, now, hist>>

\* line 167-168: open() raises (nothing is created), or write() raises after
\* open() has created or truncated the file
W167Raise(o, opened) ==
    /\ o \in Objs
    /\ worker[o].pc = "w167"
    /\ files'  = IF opened
                 THEN [files EXCEPT ![ResultPath(o)] = [by |-> o, full |-> FALSE]]
                 ELSE files
    /\ worker' = [worker EXCEPT ![o].pc = "w180", ![o].exc = ErrWrite]
    /\ UNCHANGED <<tasks, task, lock, caller, now, hist>>

\* line 170: task.result_path = str(result_path)
W170(o) ==
    /\ o \in Objs
    /\ worker[o].pc = "w170"
    /\ task'   = [task EXCEPT ![o].result_path = ResultPath(o)]
    /\ worker' = [worker EXCEPT ![o].pc = "w171"]
    /\ UNCHANGED <<tasks, files, lock, caller, now, hist>>

\* line 171: task.status = TaskStatus.COMPLETED
W171(o) ==
    /\ o \in Objs
    /\ worker[o].pc = "w171"
    /\ task'   = [task EXCEPT ![o].status = COMPLETED]
    /\ worker' = [worker EXCEPT ![o].pc = "w172"]
    /\ UNCHANGED <<tasks, files, lock, caller, now, hist>>

\* line 172: task.completed_at = time.time()
W172(o) ==
    /\ o \in Objs
    /\ worker[o].pc = "w172"
    /\ task'   = [task EXCEPT ![o].completed_at = now]
    /\ worker' = [worker EXCEPT ![o].pc = "done"]
    /\ UNCHANGED <<tasks, files, lock, caller, now, hist>>

\* line 179-180: except Exception as e: task.status = TaskStatus.FAILED
W180(o) ==
    /\ o \in Objs
    /\ worker[o].pc = "w180"
    /\ task'   = [task EXCEPT ![o].status = FAILED]
    /\ worker' = [worker EXCEPT ![o].pc = "w181"]
    /\ UNCHANGED <<tasks, files, lock, caller, now, hist>>

\* line 181 left out: the handler goes on without recording the message
W181NoMessage(o) ==
    /\ o \in Objs
    /\ worker[o].pc = "w181"
    /\ worker' = [worker EXCEPT ![o].pc = "w182"]
    /\ UNCHANGED <<tasks, task, files, lock, caller, now, hist>>

\* line 181: task.error_message = str(e)
W181(o) ==
    /\ o \in Objs
    /\ worker[o].pc = "w181"
    /\ task'   = [task EXCEPT ![o].error_message = worker[o].exc]
    /\ worker' = [worker EXCEPT ![o].pc = "w182"]
    /\ UNCHANGED <<tasks, files, lock, caller, now, hist>>

\* line 182: task.completed_at = time.time()
W182(o) ==
    /\ o \in Objs
    /\ worker[o].pc = "w182"
    /\ task'   = [task EXCEPT ![o].completed_at = now]
    /\ worker' = [worker EXCEPT ![o].pc = "done"]
    /\ UNCHANGED <<tasks, files, lock, caller, now, hist>>

\* ----------------------------------------------------------- AsyncTask.cancel
\* where cancel() returns to: cancel_task line 204, or the loop of cancel_all_tasks
\* (line 219: count += 1)
CancelExit(c) ==
    IF caller[c].op = "cancel_task"
    THEN [caller[c] EXCEPT !.pc = "ct_release"]
    ELSE [caller[c] EXCEPT !.pc = "ca_iter", !.count = @ + 1]

\* line 47 with a flag that flips: a second cancel() clears it
C47Toggle(c) ==
    /\ caller[c].pc = "c47"
    /\ LET o == caller[c].task IN
        /\ task' = [task EXCEPT ![o].cancelled = ~@]
        /\ hist' = [hist EXCEPT ![o].flag_status =
                       IF task[o].cancelled THEN @
                       ELSE IF task[o].status = RUNNING THEN RUNNING ELSE "other"]
    /\ caller' = [caller EXCEPT ![c].pc = "c48"]
    /\ UNCHANGED <<tasks, worker, files, lock, now>>

\* line 47: self.cancelled.set()
C47(c) ==
    /\ caller[c].pc = "c47"
    /\ LET o == caller[c].task IN
        /\ task' = [task EXCEPT ![o].cancelled = TRUE]
        /\ hist' = [hist EXCEPT ![o].flag_status =
                       IF task[o].cancelled THEN @
                       ELSE IF task[o].status = RUNNING THEN RUNNING ELSE "other"]
    /\ caller' = [caller EXCEPT ![c].pc = "c48"]
    /\ UNCHANGED <<tasks, worker, files, lock, now>>

\* line 48: if self.status == TaskStatus.PENDING
C48(c) ==
    /\ caller[c].pc = "c48"
    /\ caller' = [caller EXCEPT ![c].pc =
                    IF task[caller[c].task].status = PENDING THEN "c49" ELSE "c50"]
    /\ UNCHANGED <<tasks, task, worker, files, lock, now, hist>>

\* line 49: self.status = TaskStatus.CANCELLED
C49(c) ==
    /\ caller[c].pc = "c49"
    /\ task'   = [task EXCEPT ![caller[c].task].status = CANCELLED]
    /\ caller' = [caller EXCEPT ![c] = CancelExit(c)]
    /\ UNCHANGED <<tasks, worker, files, lock, now, hist>>

\* line 50: elif self.status == TaskStatus.RUNNING
C50(c) ==
    /\ caller[c].pc = "c50"
    /\ caller' = [caller EXCEPT ![c] =
                    IF task[caller[c].task].status = RUNNING
                    THEN [caller[c] EXCEPT !.pc = "c51"]
                    ELSE CancelExit(c)]
    /\ UNCHANGED <<tasks, task, worker, files, lock, now, hist>>

\* line 51: self.status = TaskStatus.CANCELLED
C51(c) ==
    /\ caller[c].pc = "c51"
    /\ task'   = [task EXCEPT ![caller[c].task].status = CANCELLED]
    /\ caller' = [caller EXCEPT ![c] = CancelExit(c)]
    /\ UNCHANGED <<tasks, worker, files, lock, now, hist>>

\* ------------------------------------------------- TaskManager.cancel_task
\* views.py line 704: stop_async_task calls cancel_task(step_id)
CancelBegin(c, step_id) ==
    /\ caller[c].pc = "idle"
    /\ caller' = [caller EXCEPT ![c] = [Idle EXCEPT !.op = "cancel_task", !.pc = "ct_acq",
                                        !.step_id = step_id]]
    /\ UNCHANGED <<tasks, task, worker, files, lock, now, hist>>

\* line 198: with self.lock
CancelAcquire(c) ==
    /\ caller[c].pc = "ct_acq"
    /\ lock = 0
    /\ lock' = c
    /\ caller' = [caller EXCEPT ![c].pc = "ct_get"]
    /\ UNCHANGED <<tasks, task, worker, files, now, hist>>

\* cancel_task that answers True for an unknown id
CancelGetAlwaysTrue(c) ==
    /\ caller[c].pc = "ct_get"
    /\ LET o == tasks[caller[c].step_id] IN
        IF o = 0
        THEN /\ lock' = 0
             /\ caller' = [caller EXCEPT ![c].pc = "ret", ![c].ret = "True"]
        ELSE /\ lock' = lock
             /\ caller' = [caller EXCEPT ![c].pc = "c47", ![c].task = o,
                                         ![c].seen = task[o].status]
    /\ UNCHANGED <<tasks, task, worker, files, now, hist>>

\* line 199-203: task = self.tasks.get(step_id); return False when None, else task.cancel()
CancelGet(c) ==
    /\ caller[c].pc = "ct_get"
    /\ LET o == tasks[caller[c].step_id] IN
        IF o = 0
        THEN /\ lock' = 0
             /\ caller' = [caller EXCEPT ![c].pc = "ret", ![c].ret = "False"]
        ELSE /\ lock' = lock
             /\ caller' = [caller EXCEPT ![c].pc = "c47", ![c].task = o,
                                         ![c].seen = task[o].status]
    /\ UNCHANGED <<tasks, task, worker, files, now, hist>>

\* line 204-205 returning True without leaving the lock
CancelReleaseKeepsLock(c) ==
    /\ caller[c].pc = "ct_release"
    /\ lock' = lock
    /\ caller' = [caller EXCEPT ![c].pc = "ret", ![c].ret = "True", ![c].seen = NoneStr]
    /\ hist' = [hist EXCEPT ![caller[c].task].cancel_done = TRUE]
    /\ UNCHANGED <<tasks, task, worker, files, now>>

\* line 204-205: leave the lock, return True
CancelRelease(c) ==
    /\ caller[c].pc = "ct_release"
    /\ lock' = 0
    /\ caller' = [caller EXCEPT ![c].pc = "ret", ![c].ret = "True", ![c].seen = NoneStr]
    /\ hist' = [hist EXCEPT ![caller[c].task].cancel_done = TRUE]
    /\ UNCHANGED <<tasks, task, worker, files, now>>

\* --------------------------------------------- TaskManager.cancel_all_tasks
\* views.py line 678: stop_generation calls cancel_all_tasks(); line 214: count = 0
CancelAllBegin(c) ==
    /\ caller[c].pc = "idle"
    /\ caller' = [caller EXCEPT ![c] = [Idle EXCEPT !.op = "cancel_all_tasks", !.pc = "ca_acq"]]
    /\ UNCHANGED <<tasks, task, worker, files, lock, now, hist>>

\* line 215: with self.lock
CancelAllAcquire(c) ==
    /\ caller[c].pc = "ca_acq"
    /\ lock = 0
    /\ lock' = c
    /\ caller' = [caller EXCEPT ![c].pc = "ca_iter"]
    /\ UNCHANGED <<tasks, task, worker, files, now, hist>>

\* line 216-218 without the test of line 217: every task is cancelled and counted
CancelAllIterEveryTask(c) ==
    /\ caller[c].pc = "ca_iter"
    /\ LET o == NextAfter(caller[c].cur) IN
        IF o = 0
        THEN /\ lock' = 0
             /\ caller' = [caller EXCEPT ![c].pc = "ret", ![c].ret = "count"]
        ELSE /\ lock' = lock
             /\ caller' = [caller EXCEPT ![c].cur = o, ![c].task = o, ![c].pc = "c47"]
    /\ UNCHANGED <<tasks, task, worker, files, now, hist>>

\* line 216-218: the next task of self.tasks.values(); cancel() it when its status
\* is PENDING or RUNNING.  line 221-222 when the iteration is over.
CancelAllIter(c) ==
    /\ caller[c].pc = "ca_iter"
    /\ LET o == NextAfter(caller[c].cur) IN
        IF o = 0
        THEN /\ lock' = 0
             /\ caller' = [caller EXCEPT ![c].pc = "ret", ![c].ret = "count"]
        ELSE /\ lock' = lock
             /\ caller' = [caller EXCEPT ![c].cur = o,
                              ![c].task = IF task[o].status \in {PENDING, RUNNING} THEN o ELSE @,
                              ![c].pc   = IF task[o].status \in {PENDING, RUNNING} THEN "c47" ELSE @]
    /\ UNCHANGED <<tasks, task, worker, files, now, hist>>

\* -------------------------------------------- TaskManager.cleanup_old_tasks
\* line 231: current_time = time.time()
CleanupBegin(c, max_age) ==
    /\ caller[c].pc = "idle"
    /\ caller' = [caller EXCEPT ![c] = [Idle EXCEPT !.op = "cleanup_old_tasks", !.pc = "cl_acq",
                                        !.t = now, !.max_age = max_age]]
    /\ UNCHANGED <<tasks, task, worker, files, lock, now, hist>>

\* line 234: with self.lock
CleanupAcquire(c) ==
    /\ caller[c].pc = "cl_acq"
    /\ lock = 0
    /\ lock' = c
    /\ caller' = [caller EXCEPT ![c].pc = "cl_iter"]
    /\ UNCHANGED <<tasks, task, worker, files, now, hist>>

\* line 238 with >= in place of >
TooOldOrEqual(age, max_age) == age >= max_age

\* line 238: age > max_age_seconds
TooOld(age, max_age) == age > max_age

\* line 238 with a test of the status added: a pending or running task is spared
CleanupIterSparesUnfinished(c) ==
    /\ caller[c].pc = "cl_iter"
    /\ LET o == NextAfter(caller[c].cur) IN
        IF o = 0
        THEN /\ caller' = [caller EXCEPT ![c].pc = "cl_del"]
             /\ files' = files
        ELSE IF TooOld(caller[c].t - task[o].created_at, caller[c].max_age)
                /\ task[o].status \notin {PENDING, RUNNING}
        THEN /\ files' = IF Exists(task[o].result_path)
                         THEN [files EXCEPT ![task[o].result_path] = NoFile]
                         ELSE files
             /\ caller' = [caller EXCEPT ![c].cur = o,
                                         ![c].remove = @ \cup {task[o].step_id},
                                         ![c].count = @ + 1]
        ELSE /\ files' = files
             /\ caller' = [caller EXCEPT ![c].cur = o]
    /\ UNCHANGED <<tasks, task, worker, lock, now, hist>>

\* line 236-247: the next (step_id, task) of self.tasks.items(); when it is too
\* old, unlink its result file if it has one and note the id for removal
CleanupIter(c) ==
    /\ caller[c].pc = "cl_iter"
    /\ LET o == NextAfter(caller[c].cur) IN
        IF o = 0
        THEN /\ caller' = [caller EXCEPT ![c].pc = "cl_del"]
             /\ files' = files
        ELSE IF TooOld(caller[c].t - task[o].created_at, caller[c].max_age)
        THEN /\ files' = IF Exists(task[o].result_path)
                         THEN [files EXCEPT ![task[o].result_path] = NoFile]
                         ELSE files
             /\ caller' = [caller EXCEPT ![c].cur = o,
                                         ![c].remove = @ \cup {task[o].step_id},
                                         ![c].count = @ + 1]
        ELSE /\ files' = files
             /\ caller' = [caller EXCEPT ![c].cur = o]
    /\ UNCHANGED <<tasks, task, worker, lock, now, hist>>

\* line 249-253: del self.tasks[step_id] for every noted id; leave the lock
CleanupDelete(c) ==
    /\ caller[c].pc = "cl_del"
    /\ tasks' = [i \in Ids |-> IF i \in caller[c].remove THEN 0 ELSE tasks[i]]
    /\ hist'  = [o \in DOMAIN hist |->
                    IF task[o].step_id \in caller[c].remove /\ tasks[task[o].step_id] = o
                    THEN [hist[o] EXCEPT !.evicted = TRUE] ELSE hist[o]]
    /\ lock'  = 0
    /\ caller' = [caller EXCEPT ![c].pc = "ret", ![c].ret = "None"]
    /\ UNCHANGED <<task, worker, files, now>>

\* ---------------------------------------------------- TaskManager.get_task
\* get_task_info (line 265) and views.download_result (views.py line 624) call
\* get_task(step_id)
GetTaskBegin(c, op, step_id) ==
    /\ caller[c].pc = "idle"
    /\ caller' = [caller EXCEPT ![c] = [Idle EXCEPT !.op = op, !.pc = "gt_acq",
                    !.step_id = step_id,
                    !.after = tasks[step_id] /= 0 /\ hist[tasks[step_id]].cancel_done]]
    /\ UNCHANGED <<tasks, task, worker, files, lock, now, hist>>

\* line 100: with self.lock
GetTaskAcquire(c) ==
    /\ caller[c].pc = "gt_acq"
    /\ lock = 0
    /\ lock' = c
    /\ caller' = [caller EXCEPT ![c].pc = "gt_get"]
    /\ UNCHANGED <<tasks, task, worker, files, now, hist>>

\* line 101: return self.tasks.get(step_id); then get_task_info line 266-267
\* (return None) or download_result line 625-629 (404)
GetTask(c) ==
    /\ caller[c].pc = "gt_get"
    /\ lock' = 0
    /\ LET o == tasks[caller[c].step_id] IN
        caller' = [caller EXCEPT ![c].task = o,
                      ![c].pc  = IF o = 0 THEN "ret"
                                 ELSE IF caller[c].op = "get_task_info" THEN "gi_271"
                                 ELSE "dl_631",
                      ![c].ret = IF o /= 0 THEN @
                                 ELSE IF caller[c].op = "get_task_info" THEN "None"
                                 ELSE "404"]
    /\ UNCHANGED <<tasks, task, worker, files, now, hist>>

\* ----------------------------------------------- TaskManager.get_task_info
\* line 270-272: "step_id", "status": task.status.value, "created_at"
GI271(c) ==
    /\ caller[c].pc = "gi_271"
    /\ caller' = [caller EXCEPT ![c].pc = "gi_273",
                                ![c].info.status = task[caller[c].task].status]
    /\ UNCHANGED <<tasks, task, worker, files, lock, now, hist>>

\* line 273: "started_at": task.started_at
GI273(c) ==
    /\ caller[c].pc = "gi_273"
    /\ caller' = [caller EXCEPT ![c].pc = "gi_274",
                                ![c].info.started_at = task[caller[c].task].started_at]
    /\ UNCHANGED <<tasks, task, worker, files, lock, now, hist>>

\* line 274: "completed_at": task.completed_at
GI274(c) ==
    /\ caller[c].pc = "gi_274"
    /\ caller' = [caller EXCEPT ![c].pc = "gi_277",
                                ![c].info.completed_at = task[caller[c].task].completed_at]
    /\ UNCHANGED <<tasks, task, worker, files, lock, now, hist>>

\* line 277: task.status == TaskStatus.COMPLETED (first operand of the `and`)
GI277(c) ==
    /\ caller[c].pc = "gi_277"
    /\ caller' = [caller EXCEPT ![c].pc =
                    IF task[caller[c].task].status = COMPLETED THEN "gi_277b" ELSE "gi_280"]
    /\ UNCHANGED <<tasks, task, worker, files, lock, now, hist>>

\* line 277-278: `and task.result_path`: info["download_url"]
GI277b(c) ==
    /\ caller[c].pc = "gi_277b"
    /\ caller' = [caller EXCEPT ![c].pc = "gi_280",
                    ![c].info.download_url = task[caller[c].task].result_path /= NoPath]
    /\ UNCHANGED <<tasks, task, worker, files, lock, now, hist>>

\* line 280: if task.status == TaskStatus.FAILED; line 283 otherwise
GI280(c) ==
    /\ caller[c].pc = "gi_280"
    /\ caller' = [caller EXCEPT ![c].pc =
                    IF task[caller[c].task].status = FAILED THEN "gi_281" ELSE "ret",
                                ![c].ret =
                    IF task[caller[c].task].status = FAILED THEN @ ELSE "info"]
    /\ UNCHANGED <<tasks, task, worker, files, lock, now, hist>>

\* line 281-283: info["error"] = task.error_message; return info
GI281(c) ==
    /\ caller[c].pc = "gi_281"
    /\ caller' = [caller EXCEPT ![c].pc = "ret", ![c].ret = "info",
                    ![c].info.error_key = TRUE,
                    ![c].info.error = task[caller[c].task].error_message]
    /\ UNCHANGED <<tasks, task, worker, files, lock, now, hist>>

\* ------------------------------------------------- views.download_result
\* line 631 without the comparison: every status goes on to line 637
DL631AnyStatus(c) ==
    /\ caller[c].pc = "dl_631"
    /\ caller' = [caller EXCEPT ![c].pc = "dl_637"]
    /\ UNCHANGED <<tasks, task, worker, files, lock, now, hist>>

\* line 631-635: 400 unless task.status == TaskStatus.COMPLETED
DL631(c) ==
    /\ caller[c].pc = "dl_631"
    /\ caller' = [caller EXCEPT ![c].pc =
                    IF task[caller[c].task].status /= COMPLETED THEN "ret" ELSE "dl_637",
                                ![c].ret =
                    IF task[caller[c].task].status /= COMPLETED THEN "400" ELSE @]
    /\ UNCHANGED <<tasks, task, worker, files, lock, now, hist>>

\* line 637-641: 404 when result_path is unset or the file does not exist
DL637(c) ==
    /\ caller[c].pc = "dl_637"
    /\ caller' = [caller EXCEPT ![c].pc =
                    IF Exists(task[caller[c].task].result_path) THEN "dl_644" ELSE "ret",
                                ![c].ret =
                    IF Exists(task[caller[c].task].result_path) THEN @ ELSE "404"]
    /\ UNCHANGED <<tasks, task, worker, files, lock, now, hist>>

\* line 644-659: read the file and answer with its content; line 660-666: an
\* error of open() is answered with 500
DL644(c) ==
    /\ caller[c].pc = "dl_644"
    /\ caller' = [caller EXCEPT ![c].pc = "ret",
                    ![c].ret = IF Exists(task[caller[c].task].result_path) THEN "200" ELSE "500",
                    ![c].content = files[task[caller[c].task].result_path]]
    /\ UNCHANGED <<tasks, task, worker, files, lock, now, hist>>

\* ------------------------------------------------------------------ system
\* the steps of the run_task thread of the o-th AsyncTask
Worker(o) ==
    \/ W117(o) \/ W118(o) \/ W121(o) \/ W122(o)
    \/ InferenceSegment(o) \/ InferenceFinal(o) \/ InferenceEnd(o)
    \/ \E msg \in ErrMsgs : InferenceRaise(o, msg)
    \/ W133(o) \/ EncodeRaise(o) \/ W134(o) \/ W136(o)
    \/ W167(o) \/ \E opened \in BOOLEAN : W167Raise(o, opened)
    \/ W170(o) \/ W171(o) \/ W172(o)
    \/ W180(o) \/ W181(o) \/ W182(o)

\* the steps of a run_task thread whose task nobody cancels: the branches of
\* line 122-123 and line 134-141 are never entered
WorkerUncancelled(o) ==
    \/ W117(o) \/ W118(o) \/ W121(o)
    \/ InferenceSegment(o) \/ InferenceFinal(o) \/ InferenceEnd(o)
    \/ \E msg \in ErrMsgs : InferenceRaise(o, msg)
    \/ W133(o) \/ EncodeRaise(o)
    \/ W167(o) \/ \E opened \in BOOLEAN : W167Raise(o, opened)
    \/ W170(o) \/ W171(o) \/ W172(o)
    \/ W180(o) \/ W181(o) \/ W182(o)

\* POST /generate_audio_enhanced_async for an id of ids
CreateOps(c, ids) ==
    \/ \E i \in ids, f \in Formats : CreateBegin(c, i, [format |-> f])
    \/ CreateAcquire(c) \/ CreateCheck(c) \/ CreateInsert(c) \/ StartTask(c) \/ CreateRespond(c)

\* POST /stop_async_task/{step_id}
CancelOps(c, ids) ==
    \/ \E i \in ids : CancelBegin(c, i)
    \/ CancelAcquire(c) \/ CancelGet(c) \/ CancelRelease(c)

\* AsyncTask.cancel, called by cancel_task and cancel_all_tasks
CancelSteps(c) == C47(c) \/ C48(c) \/ C49(c) \/ C50(c) \/ C51(c)

\* POST /stop_generation
CancelAllOps(c) == CancelAllBegin(c) \/ CancelAllAcquire(c) \/ CancelAllIter(c)

\* TaskManager.cleanup_old_tasks(max_age_seconds)
CleanupOps(c, ages) ==
    \/ \E a \in ages : CleanupBegin(c, a)
    \/ CleanupAcquire(c) \/ CleanupIter(c) \/ CleanupDelete(c)

\* GET /get_task_status
InfoOps(c, ids) ==
    \/ \E i \in ids : GetTaskBegin(c, "get_task_info", i)
    \/ GetTaskAcquire(c) \/ GetTask(c)
    \/ GI271(c) \/ GI273(c) \/ GI274(c) \/ GI277(c) \/ GI277b(c) \/ GI280(c) \/ GI281(c)

\* GET /download_result
DownloadOps(c, ids) ==
    \/ \E i \in ids : GetTaskBegin(c, "download_result", i)
    \/ GetTaskAcquire(c) \/ GetTask(c)
    \/ DL631(c) \/ DL637(c) \/ DL644(c)

\* one task id: its worker against cancel_task and cancel_all_tasks
Next ==
    \/ Tick
    \/ \E c \in Callers :
        \/ CreateOps(c, {"a"})
        \/ CancelOps(c, {"a"})
        \/ CancelSteps(c)
        \/ CancelAllOps(c)
        \/ Return(c)
    \/ \E o \in 1 .. MaxObjs : Worker(o)

Spec == Init /\ [][Next]_vars

\* one task id: its worker against cancel_task, with get_task_info reading
NextInfo ==
    \/ \E c \in Callers :
        \/ CreateOps(c, {"a"})
        \/ CancelOps(c, {"a"})
        \/ CancelSteps(c)
        \/ InfoOps(c, {"a"})
        \/ Return(c)
    \/ \E o \in 1 .. MaxObjs : Worker(o)

SpecInfo == Init /\ [][NextInfo]_vars

\* the registry alone: an id is created, evicted and created again while the
\* started workers stand still (run_task never reads or writes self.tasks)
NextCreate ==
    \/ Tick
    \/ \E c \in Callers :
        \/ CreateOps(c, {"a"})
        \/ CleanupOps(c, {0})
        \/ Return(c)

SpecCreate == Init /\ [][NextCreate]_vars

\* one task: the first client submits it once, cancels it and sweeps the
\* registry, the last client downloads its result
NextDownload ==
    \/ Tick
    \/ \E f \in Formats : Len(task) = 0 /\ CreateBegin(1, "a", [format |-> f])
    \/ CreateAcquire(1) \/ CreateCheck(1) \/ CreateInsert(1) \/ StartTask(1) \/ CreateRespond(1)
    \/ CancelOps(1, {"a"})
    \/ CancelSteps(1)
    \/ CleanupOps(1, {0})
    \/ DownloadOps(NumCallers, {"a"})
    \/ \E c \in Callers : Return(c)
    \/ \E o \in 1 .. MaxObjs : Worker(o)

SpecDownload == Init /\ [][NextDownload]_vars

\* one task id that is submitted, evicted by the sweep and submitted again by
\* the first client while the other clients download; nobody cancels
NextEvict ==
    \/ Tick
    \/ CreateOps(1, {"a"})
    \/ CleanupOps(1, {0})
    \/ \E c \in Callers \ {1} : DownloadOps(c, {"a"})
    \/ \E c \in Callers : Return(c)
    \/ \E o \in 1 .. MaxObjs : WorkerUncancelled(o)

SpecEvict == Init /\ [][NextEvict]_vars

\* the sweep: the first client submits each id once, the last client sweeps
\* the registry with max_age_seconds of MaxAges; nobody cancels, and only the
\* thread of the first task started gets to run
NextSweep ==
    \/ Tick
    \/ \E i \in Ids, f \in Formats :
          (\A o \in Objs : task[o].step_id /= i) /\ CreateBegin(1, i, [format |-> f])
    \/ CreateAcquire(1) \/ CreateCheck(1) \/ CreateInsert(1) \/ StartTask(1) \/ CreateRespond(1)
    \/ CleanupOps(NumCallers, MaxAges)
    \/ \E c \in Callers : Return(c)
    \/ WorkerUncancelled(1)

SpecSweep == Init /\ [][NextSweep]_vars

\* cancel_all_tasks: the first client submits tasks, the other clients stop
\* the generation; only the thread of the first task started gets to run
NextCancelAll ==
    \/ CreateOps(1, Ids)
    \/ \E c \in Callers \ {1} : CancelAllOps(c) \/ CancelSteps(c)
    \/ \E c \in Callers : Return(c)
    \/ Worker(1)

SpecCancelAll == Init /\ [][NextCancelAll]_vars

\* the artifact of one task id: the first client submits the id, cancels its
\* first task and submits the id again after the last client has swept the
\* registry, while the evicted task's thread still runs; the clock advances
\* between the calls
NextArtifact ==
    \/ Tick /\ \A c \in Callers : caller[c].pc = "idle"
    \/ CreateOps(1, {"a"})
    \/ Len(task) = 1 /\ CancelBegin(1, "a")
    \/ CancelAcquire(1) \/ CancelGet(1) \/ CancelRelease(1)
    \/ CancelSteps(1)
    \/ CleanupOps(NumCallers, {0})
    \/ \E c \in Callers : Return(c)
    \/ \E o \in 1 .. MaxObjs : Worker(o)

SpecArtifact == Init /\ [][NextArtifact]_vars

\* the registry lock: the first client submits and cancels one id, the last
\* client stops the generation, sweeps the registry and downloads the result
NextLock ==
    \/ CreateOps(1, {"a"})
    \/ CancelOps(1, {"a"})
    \/ CancelAllOps(NumCallers)
    \/ CleanupOps(NumCallers, {0})
    \/ DownloadOps(NumCallers, {"a"})
    \/ \E c \in Callers : CancelSteps(c) \/ Return(c)
    \/ \E o \in 1 .. MaxObjs : Worker(o)

\* `with self.lock` of any registry operation
Acquire(c) ==
    \/ CreateAcquire(c) \/ CancelAcquire(c) \/ CancelAllAcquire(c)
    \/ CleanupAcquire(c) \/ GetTaskAcquire(c)

\* the steps a handler takes inside `with self.lock`
Critical(c) ==
    \/ CreateCheck(c) \/ CreateInsert(c)
    \/ CancelGet(c) \/ CancelRelease(c) \/ CancelAllIter(c)
    \/ lock = c /\ CancelSteps(c)
    \/ CleanupIter(c) \/ CleanupDelete(c)
    \/ GetTask(c)

\* a thread that holds the lock keeps running, and a thread that waits for the
\* lock gets it when the lock is released again and again; nothing is assumed
\* of the run_task threads, which may stay inside inference forever
SpecLock ==
    /\ Init /\ [][NextLock]_vars
    /\ \A c \in Callers : WF_vars(Critical(c)) /\ SF_vars(Acquire(c))

\* one task that a client submits once, cancels and sweeps
NextTerminate ==
    \/ Tick
    \/ \E f \in Formats : Len(task) = 0 /\ CreateBegin(1, "a", [format |-> f])
    \/ CreateAcquire(1) \/ CreateCheck(1) \/ CreateInsert(1) \/ StartTask(1) \/ CreateRespond(1)
    \/ CancelOps(1, {"a"})
    \/ CancelSteps(1)
    \/ CleanupOps(1, {0})
    \/ \E c \in Callers : Return(c)
    \/ \E o \in 1 .. MaxObjs : Worker(o)

\* every started run_task thread keeps being scheduled, and the generator it
\* iterates yields at most MaxYields segments before it yields the final value,
\* ends or raises; nothing is assumed of the handlers
SpecTerminate ==
    /\ Init /\ [][NextTerminate]_vars
    /\ \A o \in 1 .. MaxObjs : WF_vars(Worker(o))

TypeOK ==
    /\ lock \in 0 .. NumCallers
    /\ now \in 0 .. MaxTime
    /\ Len(task) <= MaxObjs
    /\ Len(worker) = Len(task) /\ Len(hist) = Len(task)
    /\ \A i \in Ids : tasks[i] \in 0 .. Len(task)

\* ------------------------------------------------------------------ claims
\* Pending < Running < terminal
Rank(st) == IF st = PENDING THEN 0 ELSE IF st = RUNNING THEN 1 ELSE 2

\* the files a worker has written
WrittenBy(o) == {p \in DOMAIN files : files[p].by = o}

\* C1: once a task's status is Completed, Failed or Cancelled, no step of any
\* thread changes its status, result_path or error_message.
C1_TerminalFrozen ==
    [][\A o \in Objs :
          task[o].status \in Terminal =>
              /\ task'[o].status = task[o].status
              /\ task'[o].result_path = task[o].result_path
              /\ task'[o].error_message = task[o].error_message]_vars

\* C2: the status of a task only moves forward along Pending -> Running ->
\* terminal, so no reader sees Running after a terminal status or Pending after
\* Running.
C2_StatusMonotone ==
    [][\A o \in Objs : Rank(task'[o].status) >= Rank(task[o].status)]_vars

\* C3: in every state, result_path is set exactly when status is Completed.
C3_ResultIffCompleted ==
    \A o \in Objs : (task[o].result_path /= NoPath) <=> (task[o].status = COMPLETED)

\* C4: in every state, error_message is set (non-empty) exactly when status is
\* Failed.
C4_ErrorIffFailed ==
    \A o \in Objs : Truthy(task[o].error_message) <=> (task[o].status = FAILED)

\* a present record and the objects constructed for its id: every object but the
\* registered one has been evicted
OneRecordPerId ==
    /\ \A i \in Ids : tasks[i] /= 0 =>
          task[tasks[i]].step_id = i /\ ~hist[tasks[i]].evicted
    /\ \A o \in Objs : ~hist[o].evicted => tasks[task[o].step_id] = o

\* C5: create_task raises ValueError whenever the id is present and then changes
\* neither the registry nor any record; it inserts only when the id is absent; a
\* present record is never replaced by another one, so of the create_task calls
\* for one id exactly one succeeds until the record is evicted.
C5_CreateUnique ==
    [][/\ \A c \in Callers :
            (caller[c].pc = "cr_check" /\ caller'[c] /= caller[c]) =>
                IF tasks[caller[c].step_id] /= 0
                THEN /\ caller'[c].pc = "ret" /\ caller'[c].ret = "ValueError"
                     /\ tasks' = tasks /\ task' = task
                ELSE caller'[c].pc = "cr_insert"
       /\ \A i \in Ids : (tasks[i] /= 0 /\ tasks'[i] /= 0) => tasks'[i] = tasks[i]
       /\ OneRecordPerId']_vars

\* C5 witness: two create_task calls for one id overlapped; one has inserted its
\* record and returned, the other has raised ValueError.
C5_Witness ==
    \E c, d \in Callers :
        /\ c /= d
        /\ caller[c].op = "create_task" /\ caller[c].pc = "ret"
        /\ caller[c].ret = "ValueError" /\ caller[c].conc
        /\ caller[d].op = "create_task" /\ caller[d].pc = "ep_start"
        /\ caller[d].step_id = caller[c].step_id
        /\ tasks[caller[c].step_id] = caller[d].task

\* C6: when cancel_task found the task Pending, the task is Cancelled and its
\* cancel flag is set at the moment cancel_task returns True.
C6_CancelPendingSync ==
    [][\A c \in Callers :
          (caller[c].pc = "ct_release" /\ caller'[c].pc = "ret"
              /\ caller[c].seen = PENDING) =>
              /\ task'[caller[c].task].status = CANCELLED
              /\ task'[caller[c].task].cancelled]_vars

\* C7: a step of AsyncTask.cancel leaves the status of a Running task alone, and
\* only the task's own worker moves a Running task to a terminal status.
C7_CancelLeavesRunning ==
    [][\A o \in Objs :
          (task[o].status = RUNNING /\ task'[o].status /= RUNNING) =>
              /\ worker'[o] /= worker[o]
              /\ \A c \in Callers : caller'[c] = caller[c]]_vars

\* C8: for a task that was Running when its cancel flag was set and whose
\* inference and encoding raise nothing, a status of Cancelled or Completed is
\* final, and the worker ends with one of the two.
C8_CancelRunningSettles ==
    [][\A o \in Objs :
          (hist[o].flag_status = RUNNING /\ worker'[o].exc = NoneStr) =>
              /\ task[o].status \in {CANCELLED, COMPLETED} =>
                    task'[o].status = task[o].status
              /\ worker'[o].pc = "done" =>
                    task'[o].status \in {CANCELLED, COMPLETED}]_vars

\* C9: a task whose cancel flag was set when its worker executed its first
\* statement never has status Running, its inference is never invoked and its
\* worker writes no file.
C9_PreCancelledNeverRuns ==
    \A o \in Objs :
        hist[o].preflag =>
            /\ task[o].status /= RUNNING
            /\ ~hist[o].ran
            /\ WrittenBy(o) = {}

\* C10: a get_task_info call made after cancel_task has returned for the task
\* reports the status Cancelled.
C10_InfoAfterCancel ==
    [][\A c \in Callers :
          (caller[c].pc = "gi_271" /\ caller'[c].pc = "gi_273" /\ caller[c].after
              /\ hist[caller[c].task].cancel_done) =>
              caller'[c].info.status = CANCELLED]_vars

\* C11: cancel_task returns False when the id is not in the registry and then
\* changes no record, no file and not the registry; it returns True whenever
\* the id is present, whatever the status of its record.
C11_CancelUnknown ==
    [][\A c \in Callers :
          /\ (caller[c].op = "cancel_task" /\ caller[c].pc \in {"ct_acq", "ct_get"}
                 /\ caller'[c] /= caller[c] /\ tasks[caller[c].step_id] = 0) =>
                 tasks' = tasks /\ task' = task /\ files' = files
          /\ (caller[c].pc = "ct_get" /\ caller'[c] /= caller[c]) =>
                 IF tasks[caller[c].step_id] = 0
                 THEN caller'[c].pc = "ret" /\ caller'[c].ret = "False"
                 ELSE caller'[c].pc = "c47"
          /\ (caller[c].op = "cancel_task" /\ caller[c].pc /= "ret"
                 /\ caller'[c].pc = "ret") =>
                 (caller'[c].ret = "True" <=> tasks[caller[c].step_id] /= 0)]_vars

\* C11 witness: cancel_task has answered False for an id that has no record
C11_Witness ==
    \E c \in Callers :
        /\ caller[c].op = "cancel_task" /\ caller[c].pc = "ret"
        /\ caller[c].ret = "False" /\ tasks[caller[c].step_id] = 0

\* one task id: its worker against cancel_task; the first client submits,
\* the other clients cancel
NextCancel ==
    \/ CreateOps(1, {"a"})
    \/ \E c \in Callers \ {1} :
        \/ CancelOps(c, {"a"})
        \/ CancelSteps(c)
    \/ \E c \in Callers : Return(c)
    \/ \E o \in 1 .. MaxObjs : Worker(o)

SpecCancel == Init /\ [][NextCancel]_vars

\* C12: get_task_info returns None exactly for an unknown id; a dictionary it
\* returns has the key download_url iff the status it reports is completed
\* and the key error iff the status it reports is failed.
C12_InfoConsistent ==
    \A c \in Callers :
        (caller[c].op = "get_task_info" /\ caller[c].pc = "ret") =>
            /\ caller[c].ret = "None" <=> caller[c].task = 0
            /\ caller[c].ret = "info" =>
                /\ caller[c].info.download_url <=> caller[c].info.status = COMPLETED
                /\ caller[c].info.error_key <=> caller[c].info.status = FAILED

\* C13 as claimed: the create endpoint answers 400 (ValueError) or a status that
\* is Pending or Running.
C13_CreateInitialStatus ==
    \A c \in Callers :
        (caller[c].op = "create_task" /\ caller[c].pc = "ret") =>
            caller[c].ret \in {"ValueError", PENDING, RUNNING}

\* C13 as amended: the create endpoint answers 400 without starting a worker
\* when the id is present; otherwise it has started the worker and answers with
\* the status the task has at the moment the response is built, whichever of
\* the five it is.
C13_CreateResponse ==
    [][\A c \in Callers :
          /\ (caller[c].pc = "cr_check" /\ caller'[c] /= caller[c]
                 /\ tasks[caller[c].step_id] /= 0) =>
                 /\ caller'[c].pc = "ret" /\ caller'[c].ret = "ValueError"
                 /\ worker' = worker /\ task' = task
          /\ (caller[c].pc = "ep_resp" /\ caller'[c] /= caller[c]) =>
                 /\ caller'[c].pc = "ret"
                 /\ caller'[c].ret = task[caller[c].task].status
                 /\ worker[caller[c].task].pc /= "nothread"]_vars

\* C13 witness: the endpoint has answered with a terminal status
C13_Witness ==
    \E c \in Callers :
        /\ caller[c].op = "create_task" /\ caller[c].pc = "ret"
        /\ caller[c].ret \in Terminal

\* C14 as stated: download_result answers by the state of the record it looked
\* up at the moment it answers: 404 for an unknown id, 400 for a status other
\* than completed, 404 for a completed record whose file is missing, and the
\* content otherwise.
C14_DownloadAnswer ==
    [][\A c \in Callers :
          (caller[c].op = "download_result" /\ caller[c].pc /= "ret"
              /\ caller'[c].pc = "ret") =>
              LET o == caller'[c].task IN
              caller'[c].ret =
                  IF o = 0 THEN "404"
                  ELSE IF task[o].status /= COMPLETED THEN "400"
                  ELSE IF ~Exists(task[o].result_path) THEN "404"
                  ELSE "200"]_vars

\* C14 (amended): download_result answers from successive reads: 404 when
\* get_task finds no record, 400 when the status read at line 631 is not
\* completed, 404 when at line 637 result_path is unset or the file does not
\* exist; it then opens the file and returns the content the file has at that
\* moment, or answers 500 when the file has gone since line 637.
C14_DownloadReads ==
    [][\A c \in Callers :
          (caller[c].op = "download_result" /\ caller'[c] /= caller[c]) =>
              LET o == caller'[c].task IN
              /\ caller[c].pc = "gt_get" =>
                    IF tasks[caller[c].step_id] = 0
                    THEN caller'[c].pc = "ret" /\ caller'[c].ret = "404"
                    ELSE caller'[c].pc = "dl_631" /\ o = tasks[caller[c].step_id]
              /\ caller[c].pc = "dl_631" =>
                    IF task[o].status /= COMPLETED
                    THEN caller'[c].pc = "ret" /\ caller'[c].ret = "400"
                    ELSE caller'[c].pc = "dl_637"
              /\ caller[c].pc = "dl_637" =>
                    IF ~Exists(task[o].result_path)
                    THEN caller'[c].pc = "ret" /\ caller'[c].ret = "404"
                    ELSE caller'[c].pc = "dl_644"
              /\ caller[c].pc = "dl_644" =>
                    /\ caller'[c].pc = "ret"
                    /\ IF Exists(task[o].result_path)
                       THEN /\ caller'[c].ret = "200"
                            /\ caller'[c].content = files[task[o].result_path]
                       ELSE caller'[c].ret = "500"]_vars

\* a download found the record completed and its file missing
C14_Witness ==
    \E c \in Callers :
        /\ caller[c].op = "download_result" /\ caller[c].pc = "ret"
        /\ caller[c].ret = "404" /\ caller[c].task /= 0
        /\ task[caller[c].task].status = COMPLETED

\* C15: a download that succeeds returns the complete file written by the
\* worker of the record it was looked up for, never the output of another worker.
C15_OwnOutput ==
    \A c \in Callers :
        (caller[c].op = "download_result" /\ caller[c].pc = "ret" /\ caller[c].ret = "200") =>
            caller[c].content = [by |-> caller[c].task, full |-> TRUE]

\* a worker that ended by an exception, its task never cancelled, left the task
\* failed with the message of the exception, completed_at set and no result_path
FailedEnd(o) ==
    (worker[o].pc = "done" /\ worker[o].exc /= NoneStr /\ ~task[o].cancelled) =>
        /\ task[o].status = FAILED
        /\ task[o].error_message = worker[o].exc
        /\ task[o].error_message /= NoneStr
        /\ task[o].completed_at /= NoneTime
        /\ task[o].result_path = NoPath

\* C16: an exception of inference or of writing the artifact is caught in the
\* worker: the step that raises enters the handler of line 179 and changes
\* nothing of the registry, its lock or any caller; absent a cancel the task
\* ends failed with error_message recorded, completed_at set and no result_path.
C16_ExceptionCaught ==
    [][\A o \in DOMAIN worker :
          /\ worker'[o].exc /= worker[o].exc =>
                /\ worker'[o].pc = "w180"
                /\ caller' = caller /\ tasks' = tasks /\ lock' = lock
                /\ task' = task
          /\ FailedEnd(o)']_vars

\* a worker whose write of the artifact raised has ended, nobody cancelled
C16_Witness ==
    \E o \in Objs :
        /\ worker[o].pc = "done" /\ worker[o].exc = ErrWrite
        /\ ~task[o].cancelled /\ task[o].status = FAILED

\* C17 as stated: cleanup_old_tasks(0) on a registry whose records were all
\* created at or before the time it read leaves the registry empty.
C17_SweepRemovesAll ==
    [][\A c \in Callers :
          (caller[c].op = "cleanup_old_tasks" /\ caller[c].pc = "cl_del"
              /\ caller'[c].pc = "ret" /\ caller[c].max_age = 0
              /\ \A o \in Present : task[o].created_at <= caller[c].t) =>
              \A i \in Ids : tasks'[i] = 0]_vars

\* C17 (amended): cleanup_old_tasks(max_age) removes exactly the records that
\* are older than max_age by the time it read before taking the lock
\* (current_time - created_at > max_age: with max_age = 0 a record created at
\* that very reading stays), and of each removed record it unlinks the file at
\* result_path when result_path is set; no other file is touched.
C17_SweepStrictlyOlder ==
    [][\A c \in Callers :
          (caller[c].op = "cleanup_old_tasks" /\ caller'[c] /= caller[c]) =>
              /\ caller[c].pc = "cl_iter" =>
                    LET o == NextAfter(caller[c].cur) IN
                    IF o /= 0 /\ caller[c].t - task[o].created_at > caller[c].max_age
                    THEN /\ caller'[c].remove = caller[c].remove \cup {task[o].step_id}
                         /\ \A p \in DOMAIN files :
                               files'[p] = IF p = task[o].result_path THEN NoFile ELSE files[p]
                    ELSE /\ caller'[c].remove = caller[c].remove
                         /\ files' = files
              /\ caller[c].pc = "cl_del" =>
                    /\ caller'[c].pc = "ret"
                    /\ \A i \in Ids :
                          tasks'[i] = IF tasks[i] /= 0 /\ caller[c].t - task[tasks[i]].created_at
                                                            > caller[c].max_age
                                      THEN 0 ELSE tasks[i]]_vars

\* a sweep with max_age_seconds = 0 has returned: it removed a record, whose
\* file it deleted, and left in the registry a record created at the time the
\* sweep read
C17_Witness ==
    \E c \in Callers :
        /\ caller[c].op = "cleanup_old_tasks" /\ caller[c].pc = "ret" /\ caller[c].max_age = 0
        /\ \E o \in Objs : /\ hist[o].evicted /\ task[o].result_path /= NoPath
                           /\ ~Exists(task[o].result_path)
        /\ \E o \in Present : task[o].created_at = caller[c].t

\* C18: cancel_all_tasks visits every record of the registry once; a record it
\* finds pending or running has its cancel flag set and is counted once, a
\* record it finds completed, failed or cancelled is left as it is (status,
\* result_path, error_message and flag) and is not counted; the count is
\* returned, and no record but the one being cancelled is changed by the call.
C18_CancelAll ==
    [][\A c \in Callers :
          (caller[c].op = "cancel_all_tasks" /\ caller'[c] /= caller[c]) =>
              /\ caller[c].pc = "ca_iter" =>
                    LET o == NextAfter(caller[c].cur) IN
                    /\ task' = task
                    /\ IF o = 0
                       THEN /\ caller'[c].pc = "ret" /\ caller'[c].ret = "count"
                            /\ caller'[c].count = caller[c].count
                       ELSE /\ caller'[c].cur = o
                            /\ caller'[c].count = caller[c].count
                            /\ IF task[o].status \in {PENDING, RUNNING}
                               THEN caller'[c].pc = "c47" /\ caller'[c].task = o
                               ELSE caller'[c].pc = "ca_iter"
              /\ caller[c].pc = "c47" => task'[caller[c].task].cancelled
              /\ caller[c].pc \in {"c47", "c48", "c49", "c50", "c51"} =>
                    /\ caller'[c].count =
                          IF caller'[c].pc = "ca_iter" THEN caller[c].count + 1
                          ELSE caller[c].count
                    /\ \A q \in DOMAIN task : q /= caller[c].task => task'[q] = task[q]]_vars

\* cancel_all_tasks has returned 1 from a registry of two records: one had
\* ended before and keeps its flag clear, the other has its flag set
C18_Witness ==
    \E c \in Callers :
        /\ caller[c].op = "cancel_all_tasks" /\ caller[c].pc = "ret" /\ caller[c].count = 1
        /\ \E o \in Present, q \in Present :
              /\ task[o].cancelled
              /\ ~task[q].cancelled /\ task[q].status \in {COMPLETED, FAILED}

\* the run_task thread of the o-th task has been started and has not returned
Live(o) == worker[o].pc \notin {"nothread", "done"}

\* C19: no two live workers act on the same task id.
C19_OneWorkerPerId ==
    \A o \in Objs, q \in Objs :
        (o /= q /\ task[o].step_id = task[q].step_id) => ~(Live(o) /\ Live(q))

\* C20: a worker that finds the cancel flag set at the checkpoint of line 133
\* uses the yielded value no further: it sets the status cancelled and returns,
\* having written no file and set no result_path.
C20_CheckpointAbort ==
    [][\A o \in DOMAIN worker :
          worker'[o] /= worker[o] =>
              /\ (worker[o].pc = "w133" /\ task[o].cancelled) => worker'[o].pc = "w134"
              /\ worker[o].pc = "w134" =>
                    worker'[o].pc = "w136" /\ task'[o].status = CANCELLED
              /\ worker[o].pc = "w136" =>
                    /\ worker'[o].pc = "done"
                    /\ task'[o].status = CANCELLED
                    /\ task'[o].result_path = NoPath
                    /\ files' = files
                    /\ WrittenBy(o) = {}]_vars

\* a worker has returned from the checkpoint: inference had yielded, nothing
\* was raised, the task is cancelled and has no result_path
C20_Witness ==
    \E o \in Objs :
        /\ worker[o].pc = "done" /\ hist[o].ran /\ worker[o].exc = NoneStr
        /\ task[o].status = CANCELLED /\ task[o].result_path = NoPath

\* C21 as stated: a worker whose inference ended without the final output left
\* the task failed with the message "no result produced" and wrote no file.
C21_NoResultProduced ==
    \A o \in Objs :
        (worker[o].pc = "done" /\ worker[o].exc = ErrNoAudio) =>
            /\ task[o].status = FAILED
            /\ task[o].error_message = "no result produced"
            /\ WrittenBy(o) = {}

\* C21 (amended): when the generator ends without the final output (after
\* segments only, or after nothing) the worker raises ValueError("No audio
\* generated") at line 153 and its handler sets status failed, that message and
\* completed_at; the worker writes no file and sets no result_path.  The status
\* is still failed when the worker returns unless the task has been cancelled.
C21_NoAudioGenerated ==
    [][\A o \in DOMAIN worker :
          /\ (worker[o].pc = "w131" /\ worker'[o].pc = "w180"
                 /\ worker'[o].exc \notin ErrMsgs) =>
                 worker'[o].exc = "No audio generated" /\ task' = task /\ files' = files
          /\ (worker'[o].pc = "done" /\ worker'[o].exc = ErrNoAudio) =>
                /\ task'[o].error_message = "No audio generated"
                /\ task'[o].completed_at /= NoneTime
                /\ task'[o].result_path = NoPath
                /\ WrittenBy(o)' = {}
                /\ task'[o].status \in {FAILED, CANCELLED}
                /\ ~task'[o].cancelled => task'[o].status = FAILED]_vars

\* a worker whose generator yielded a segment and then ended has returned
C21_Witness ==
    \E o \in Objs :
        /\ worker[o].pc = "done" /\ worker[o].exc = ErrNoAudio /\ worker[o].n > 0
        /\ task[o].status = FAILED /\ task[o].error_message = ErrNoAudio

\* C22: no step clears a cancel flag that is set; cancel_task reaches cancel()
\* for a known id whatever the status, and line 47 sets the flag whatever the
\* status.
C22_FlagMonotone ==
    [][/\ \A o \in DOMAIN task : task[o].cancelled => task'[o].cancelled
       /\ \A c \in Callers :
             caller'[c] /= caller[c] =>
                 /\ (caller[c].pc = "ct_get" /\ tasks[caller[c].step_id] /= 0) =>
                        caller'[c].pc = "c47" /\ caller'[c].task = tasks[caller[c].step_id]
                 /\ caller[c].pc = "c47" => task'[caller[c].task].cancelled]_vars

\* the flag of a task was first set after the task had completed
C22_Witness ==
    \E o \in Objs :
        /\ task[o].cancelled /\ hist[o].flag_status = "other"
        /\ task[o].status = COMPLETED /\ worker[o].pc = "done"

\* the records of the registry that are older than max_age at the time t
Older(t, max_age) == {o \in Present : t - task[o].created_at > max_age}

\* C23: cleanup_old_tasks(max_age) notes for removal exactly the records whose
\* age by the time it read is greater than max_age, whatever their status, and
\* removes exactly those; it changes no field of any record, and the file of a
\* record it keeps is left as it is.
C23_SweepFrame ==
    [][\A c \in Callers :
          (caller[c].op = "cleanup_old_tasks" /\ caller'[c] /= caller[c]
              /\ caller[c].pc \in {"cl_iter", "cl_del"}) =>
              LET old == Older(caller[c].t, caller[c].max_age) IN
              /\ task' = task
              /\ \A q \in Present \ old : files'[ResultPath(q)] = files[ResultPath(q)]
              /\ caller[c].pc = "cl_iter" =>
                    /\ tasks' = tasks
                    /\ LET o == NextAfter(caller[c].cur) IN
                       o /= 0 => (task[o].step_id \in caller'[c].remove <=> o \in old)
              /\ caller[c].pc = "cl_del" =>
                    /\ files' = files
                    /\ {tasks'[i] : i \in Ids} \ {0} = Present \ old
                    /\ caller[c].remove = {task[o].step_id : o \in old}]_vars

\* a sweep has returned that removed a record still running and kept another
\* record, completed or not, with its file
C23_Witness ==
    \E c \in Callers :
        /\ caller[c].op = "cleanup_old_tasks" /\ caller[c].pc = "ret"
        /\ \E o \in Objs : hist[o].evicted /\ task[o].status = RUNNING
        /\ Present /= {}

\* C24: once a record has been evicted and its worker has returned, no file is
\* left at the record's artifact path unless the id is in the registry again.
C24_NoOrphan ==
    \A o \in Objs :
        (hist[o].evicted /\ worker[o].pc = "done" /\ tasks[task[o].step_id] = 0) =>
            ~Exists(ResultPath(o))

\* a sweep holds the lock and has noted the id of the o-th task for removal
BeingEvicted(o) ==
    \E c \in Callers :
        /\ caller[c].op = "cleanup_old_tasks" /\ caller[c].pc \in {"cl_iter", "cl_del"}
        /\ task[o].step_id \in caller[c].remove

\* C25: a record of the registry whose status is completed has its result_path
\* set, and the file it names exists unless the sweep that is evicting the
\* record has already unlinked it.
C25_CompletedHasArtifact ==
    \A o \in Present :
        task[o].status = COMPLETED =>
            /\ task[o].result_path = ResultPath(o)
            /\ Exists(task[o].result_path) \/ BeingEvicted(o)

\* a completed record of a re-created id is in the registry with its file after
\* the worker of the evicted, cancelled record of that id has returned from a
\* checkpoint
C25_Witness ==
    \E o \in Present, q \in Objs :
        /\ task[o].status = COMPLETED /\ Exists(task[o].result_path)
        /\ files[task[o].result_path].by = o /\ worker[o].pc = "done"
        /\ q /= o /\ task[q].step_id = task[o].step_id
        /\ worker[q].pc = "done" /\ task[q].cancelled /\ hist[q].ran
        /\ worker[q].exc = NoneStr /\ task[q].result_path = NoPath

\* the handler c waits at `with self.lock`
Waiting(c) == caller[c].pc \in {"cr_acq", "ct_acq", "ca_acq", "cl_acq", "gt_acq"}

\* the handler c is inside `with self.lock`
Inside(c) ==
    caller[c].pc \in {"cr_check", "cr_insert", "ct_get", "ct_release", "ca_iter",
                      "cl_iter", "cl_del", "gt_get", "c47", "c48", "c49", "c50", "c51"}

\* the lock is held by exactly the handler that is inside `with self.lock`
LockHeld == \A c \in Callers : Inside(c) <=> lock = c

C27_WorkerTerminates ==
    /\ [](\A o \in Objs : worker[o].pc = "done" => task[o].status \in Terminal)
    /\ \A o \in 1 .. MaxObjs :
          (o \in Objs /\ worker[o].pc /= "nothread") ~> (o \in Objs /\ worker[o].pc = "done")

\* the worker of a task that was cancelled and evicted has returned
C27_Witness ==
    \E o \in Objs :
        /\ worker[o].pc = "done" /\ hist[o].evicted /\ task[o].cancelled
        /\ hist[o].ran

====
